---- MODULE Spec2Model ----
(***************************************************************************)
(* The call-session engine of the pizza voice agent:                       *)
(*   app/handlers/conversation_manager.py  (sessions, dialogue actions)    *)
(*   app/handlers/voice_handler.py         (webhooks)                      *)
(*   app/handlers/media_stream_handler.py  (websocket media streams)       *)
(*   app/models/conversation.py            (ConversationContext)           *)
(*   app/services/langchain_service.py     (dialogue engine, memories)     *)
(*                                                                         *)
(* The handlers are asyncio coroutines on one event loop: a handler runs   *)
(* without interruption from one `await` that really suspends (an HTTP or  *)
(* LLM round trip, a websocket read or write) to the next.  Each action    *)
(* below is one such uninterrupted stretch of one handler; the value the   *)
(* awaited collaborator hands back is the action's input.                  *)
(* polly_service.synthesize_speech and the Whisper client are blocking     *)
(* calls inside coroutines: they do not suspend.                           *)
(***************************************************************************)
EXTENDS Integers, Sequences, FiniteSets, TLC

Calls == {"A1", "B2"}
Slots == {"t1", "t2"}
NObj == Cardinality(Calls) + Cardinality(Slots)
ObjIds == 1..NObj

(* ---------------- bounds of the model ---------------- *)
MaxReq == 2
MaxReqDialogue == 3
MaxReqStream == 2
MaxBuf == 2
MaxStatus == 2
MaxReqReprompts == 4
MaxReqRacing == 2
MaxReqFrames == 3
MaxReqListen == 3
MaxReqPair == 3
MaxReqApart == 2
MaxReqDetails == 3
MaxCallTime == 1
MaxOversleep == 1

(* ---------------- app/models/conversation.py ---------------- *)
WELCOME == "welcome"
TAKING_ORDER == "taking_order"
CONFIRMING_CART == "confirming_cart"
COLLECTING_INFO == "collecting_info"
CREATING_ORDER == "creating_order"
ORDER_COMPLETE == "order_complete"
ERROR == "error"
ConversationState ==
  {WELCOME, TAKING_ORDER, CONFIRMING_CART, COLLECTING_INFO, CREATING_ORDER,
   ORDER_COMPLETE, ERROR}

\* None and "" are both falsy and the code only tests truth: name and address
\* hold "" when unset, phone (a string, here its characters) <<>>, cart_token 0.
\* hist names the list object conversation_history refers to (0: none).
ConversationContext(l) ==
  [state |-> WELCOME, cart_token |-> 0, name |-> "", phone |-> <<>>,
   address |-> "", hist |-> l, catalog |-> FALSE, last |-> "", attempts |-> 0]

FreeCtx == ConversationContext(0)

update_state(cx, new_state) == [cx EXCEPT !.state = new_state]

is_customer_info_complete(cx) ==
  cx.name # "" /\ cx.phone # <<>> /\ cx.address # ""

increment_attempts(cx) == [cx EXCEPT !.attempts = @ + 1]

\* to_dict leaves the catalog out; conversation_history is the same list object.
to_dict(cx) ==
  [state |-> cx.state, cart_token |-> cx.cart_token, name |-> cx.name,
   phone |-> cx.phone, address |-> cx.address, hist |-> cx.hist,
   last |-> cx.last, attempts |-> cx.attempts]

NoSnap == to_dict(FreeCtx)

from_dict(d) ==
  [state |-> d.state, cart_token |-> d.cart_token, name |-> d.name,
   phone |-> d.phone, address |-> d.address, hist |-> d.hist,
   catalog |-> FALSE, last |-> d.last, attempts |-> d.attempts]

(* ---------------- state ---------------- *)
VARIABLES
  active_conversations, \* ConversationManager.active_conversations: call -> object (0: no key)
  heap,                 \* the ConversationContext objects
  lists,                \* the conversation_history list objects
  memories,             \* LangchainService.memories: the calls with a memory
  tasks,                \* the handler invocations in flight
  active_streams,       \* MediaStreamHandler.active_streams: call -> connection ("": no key)
  audio_buffers,        \* MediaStreamHandler.audio_buffers: call -> bytes held (-1: no key)
  stream_sids,          \* MediaStreamHandler.stream_sids: call -> streamSid ("": no key)
  clearCalls,           \* clear_memory invocations per call
  notified,             \* terminal call-status notifications handled per call
  orderLog,             \* the order-create requests sent to the backend
  outbox,               \* media frames written to each call's websocket
  nReq,                 \* handler invocations started so far
  received,             \* bytes of audio the call's media frames brought since its last flush
  waiter                \* TranscribeService._wait_for_transcription: its frame and clock

vars ==
  <<active_conversations, heap, lists, memories, tasks, active_streams,
    audio_buffers, stream_sids, clearCalls, notified, orderLog, outbox, nReq,
    received, waiter>>

\* No wait for a transcription job is under way.
IdleWaiter == [pc |-> "idle", elapsed |-> 0, seen |-> "", extracted |-> "", result |-> ""]

NoRes == [action |-> "", message |-> "", hangup |-> FALSE]

IdleTask ==
  [kind |-> "idle", pc |-> "idle", call |-> "", ctx |-> 0, msg |-> "",
   req |-> 0, snap |-> NoSnap, action |-> "", res |-> NoRes, ops |-> <<>>,
   prior |-> "", was_complete |-> FALSE, outcome |-> "", said |-> "",
   sid |-> "", sock |-> "", flushed |-> 0, before |-> FreeCtx, product |-> ""]

Init ==
  /\ active_conversations = [c \in Calls |-> 0]
  /\ heap = [o \in ObjIds |-> FreeCtx]
  /\ lists = [l \in ObjIds |-> <<>>]
  /\ memories = {}
  /\ tasks = [t \in Slots |-> IdleTask]
  /\ active_streams = [c \in Calls |-> ""]
  /\ audio_buffers = [c \in Calls |-> -1]
  /\ stream_sids = [c \in Calls |-> ""]
  /\ clearCalls = [c \in Calls |-> 0]
  /\ notified = [c \in Calls |-> 0]
  /\ orderLog = {}
  /\ outbox = [c \in Calls |-> <<>>]
  /\ nReq = 0
  /\ received = [c \in Calls |-> 0]
  /\ waiter = IdleWaiter

(***************************************************************************)
(* A stretch of handler code is a function from the world it starts in to  *)
(* the world it leaves: World(t, env) is the state as handler invocation t *)
(* sees it (me: its own frame; env: what the blocking collaborators answer *)
(* during the stretch), Commit(t, W) installs the result.                  *)
(***************************************************************************)
Min(S) == CHOOSE x \in S : \A y \in S : x <= y

World(t, env) ==
  [conv |-> active_conversations, heap |-> heap, lists |-> lists,
   mem |-> memories, streams |-> active_streams, bufs |-> audio_buffers,
   sids |-> stream_sids,
   orderLog |-> orderLog, outbox |-> outbox, me |-> tasks[t], self |-> t,
   env |-> env, cleared |-> 0,
   otherRefs |-> {tasks[u].ctx : u \in Slots \ {t}} \ {0},
   otherLists |-> {tasks[u].snap.hist : u \in Slots \ {t}} \ {0}]

\* Objects nothing refers to any more are garbage: their cells are cleared.
Install(tk, W) ==
  LET refs == ({W.conv[c] : c \in Calls} \cup {tk[u].ctx : u \in Slots}) \ {0}
      hp == [o \in ObjIds |-> IF o \in refs THEN W.heap[o] ELSE FreeCtx]
      lrefs == ({hp[o].hist : o \in ObjIds} \cup {tk[u].snap.hist : u \in Slots}) \ {0}
  IN  /\ tasks' = tk
      /\ active_conversations' = W.conv
      /\ heap' = hp
      /\ lists' = [l \in ObjIds |-> IF l \in lrefs THEN W.lists[l] ELSE <<>>]
      /\ memories' = W.mem
      /\ active_streams' = W.streams
      /\ audio_buffers' = W.bufs
      /\ stream_sids' = W.sids
      /\ orderLog' = W.orderLog
      /\ outbox' = W.outbox
      /\ waiter' = waiter

Commit(t, W) == Install([tasks EXCEPT ![t] = W.me], W)

Cx(W) == W.heap[W.me.ctx]

SetCx(W, cx) == [W EXCEPT !.heap[W.me.ctx] = cx]

\* A new object: a cell that neither the registry nor another invocation refers
\* to once this stretch has stored it (the entry of its own call is replaced).
Referenced(W) == ({W.conv[c] : c \in Calls} \cup W.otherRefs) \ {0}

NewObj(W) ==
  Min(ObjIds \ ({W.conv[c] : c \in Calls \ {W.me.call}} \cup W.otherRefs))

NewList(W) ==
  Min(ObjIds \ ({W.heap[o].hist : o \in Referenced(W)} \cup W.otherLists))

(* ---------------- responses (conversation_manager.py 351-389) ---------------- *)
\* polly_service.synthesize_speech is called and its result dropped; it neither
\* suspends nor raises (polly_service.py 33-52).
voice_response(text, hangup) ==
  [action |-> "voice_response", message |-> text, hangup |-> hangup]

\* The error TwiML always ends in <Hangup/>.
error_response(message) ==
  [action |-> "error", message |-> message, hangup |-> TRUE]

(* ---------------- media_stream_handler.py 167-208 ---------------- *)
send_audio_response_unchecked(W, text) ==
  LET c == W.me.call IN
  IF W.streams[c] = "" \/ W.sids[c] = ""
  THEN [W EXCEPT !.me.pc = "recv", !.me.said = ""]
  ELSE [W EXCEPT !.me.pc = "await_send", !.me.said = text,
                 !.me.sid = W.sids[c], !.me.sock = W.streams[c]]

send_audio_response_unaddressed(W, text) ==
  LET c == W.me.call IN
  IF W.streams[c] = "" \/ ~W.env.synth
  THEN [W EXCEPT !.me.pc = "recv", !.me.said = ""]
  ELSE [W EXCEPT !.me.pc = "await_send", !.me.said = text,
                 !.me.sid = W.sids[c], !.me.sock = W.streams[c]]

\* The stretch of _send_audio_response up to `await websocket.send_text`:
\* no stream entry, no streamSid, or audio that lin2ulaw rejects (None from a
\* failed synthesis) ends the send; otherwise the frame is handed to the socket.
send_audio_response(W, text) ==
  LET c == W.me.call IN
  IF W.streams[c] = "" \/ W.sids[c] = "" \/ ~W.env.synth
  THEN [W EXCEPT !.me.pc = "recv", !.me.said = ""]
  ELSE [W EXCEPT !.me.pc = "await_send", !.me.said = text,
                 !.me.sid = W.sids[c], !.me.sock = W.streams[c]]

\* The handler gets its result back: a webhook returns the TwiML; the media
\* stream speaks result["message"] (media_stream_handler.py 146-153).
Return(W, res) ==
  LET W1 == [W EXCEPT !.me.res = res] IN
  IF W.me.kind = "ws" THEN send_audio_response(W1, res.message)
  ELSE [W1 EXCEPT !.me.pc = "done"]

Await(W, at) == [W EXCEPT !.me.pc = at]

\* me.ops: the requests the turn's dialogue action has made of the commerce
\* backend and the extractor, in order.
Call(W, op) == [W EXCEPT !.me.ops = Append(@, op)]

(* ---------------- conversation_manager.py 262-307 ---------------- *)
Digit == {"0", "1", "2", "3", "4", "5", "6", "7", "8", "9"}
IsDigit(ch) == ch \in Digit
MinPhoneDigits == 7

\* Lines 275-289: the fields the extractor found are written where still unset.
extract_into_overwriting(cx, info) ==
  LET phone == SelectSeq(info.phone, IsDigit) IN
  [cx EXCEPT
     !.name = IF info.name # "" THEN info.name ELSE @,
     !.phone = IF info.phone # <<>> /\ Len(phone) >= MinPhoneDigits THEN phone ELSE @,
     !.address = IF info.address # "" THEN info.address ELSE @]

extract_into(cx, info) ==
  LET phone == SelectSeq(info.phone, IsDigit) IN
  [cx EXCEPT
     !.name = IF @ = "" /\ info.name # "" THEN info.name ELSE @,
     !.phone = IF @ = <<>> /\ info.phone # <<>> /\ Len(phone) >= MinPhoneDigits
               THEN phone ELSE @,
     !.address = IF @ = "" /\ info.address # "" THEN info.address ELSE @]

\* Lines 294-304: the state and the prompt that follow from what is now known.
info_outcome_bug(cx) ==
  IF cx.name # "" /\ cx.phone # <<>>
  THEN [cx |-> update_state(cx, CREATING_ORDER), text |-> "all_info"]
  ELSE IF cx.name = "" THEN [cx |-> cx, text |-> "ask_name"]
  ELSE [cx |-> cx, text |-> "ask_phone"]

info_outcome(cx) ==
  IF cx.name # "" /\ cx.phone # <<>> /\ cx.address # ""
  THEN [cx |-> update_state(cx, CREATING_ORDER), text |-> "all_info"]
  ELSE IF cx.name = "" THEN [cx |-> cx, text |-> "ask_name"]
  ELSE IF cx.phone = <<>> THEN [cx |-> cx, text |-> "ask_phone"]
  ELSE [cx |-> cx, text |-> "ask_address"]

\* _collect_customer_info from the extractor's answer on (lines 275-307).
collect_customer_info(cx, info) ==
  LET out == info_outcome(extract_into(cx, info)) IN
  [cx |-> out.cx, res |-> voice_response(out.text, FALSE)]

(* ---------------- conversation_manager.py 309-349 ---------------- *)
\* _create_order up to `await pizza_api.create_order`.
create_order(W) ==
  LET cx == Cx(W) IN
  IF ~is_customer_info_complete(cx)
  THEN Return(W, voice_response("need_info", FALSE))
  ELSE Await([W EXCEPT !.me.ops = Append(@, "order"),
                       !.orderLog = @ \cup
                         {[call |-> W.me.call, cart_token |-> cx.cart_token,
                           name |-> cx.name, phone |-> cx.phone,
                           address |-> cx.address]}],
             "await_order")

(* ---------------- conversation_manager.py 146-219 ---------------- *)
\* pizza_api.find_product_by_name: which product names resolve in the catalog.
CatalogProducts == {"margarita"}
find_product_by_name(product_name) == product_name \in CatalogProducts

\* _add_product_to_cart up to `await pizza_api.add_product_to_cart`: no name
\* or no match in the catalog is a failure without a backend request.
add_product_to_cart(W, product) ==
  IF product = "" \/ ~find_product_by_name(product)
  THEN Return(W, voice_response("retry_add", FALSE))
  ELSE Await(Call(W, "add_item"), "await_add")

\* _get_cart_summary up to `await pizza_api.get_cart`; without a cart token the
\* summary is the empty-cart sentence and nothing is asked of the backend.
confirm_cart_done(W) ==
  Return(SetCx(W, update_state(Cx(W), CONFIRMING_CART)),
         voice_response("cart_summary", FALSE))

get_cart_summary(W) ==
  IF Cx(W).cart_token = 0 THEN confirm_cart_done(W)
  ELSE Await(Call(W, "get_cart"), "await_getcart")

(* ---------------- conversation_manager.py 84-144 ---------------- *)
HandOffAfter == 3

clarification_at_three(W) ==
  IF Cx(W).state = COLLECTING_INFO
  THEN Await(Call(W, "extract"), "await_extract")
  ELSE LET cx == increment_attempts(Cx(W)) IN
       Return(SetCx(W, cx),
              voice_response(IF cx.attempts >= HandOffAfter THEN "handoff" ELSE "ai",
                             FALSE))

clarification_always_counts(W) ==
  LET cx == increment_attempts(Cx(W)) IN
  Return(SetCx(W, cx),
         voice_response(IF cx.attempts > HandOffAfter THEN "handoff" ELSE "ai", FALSE))

clarification(W) ==
  IF Cx(W).state = COLLECTING_INFO
  THEN Await(Call(W, "extract"), "await_extract")
  ELSE LET cx == increment_attempts(Cx(W)) IN
       Return(SetCx(W, cx),
              voice_response(IF cx.attempts > HandOffAfter THEN "handoff" ELSE "ai",
                             FALSE))

unknown_action_counts(W) ==
  Return(SetCx(W, increment_attempts(Cx(W))), voice_response("ai", FALSE))

unknown_action_bug(W) ==
  Return(SetCx(W, update_state(Cx(W), ERROR)), voice_response("ai", FALSE))

unknown_action(W) == Return(W, voice_response("ai", FALSE))

\* _execute_action up to its first suspension.
execute_action(W, action, product) ==
  CASE action = "welcome" ->
         Return(SetCx(W, update_state(Cx(W), TAKING_ORDER)), voice_response("ai", FALSE))
    [] action = "add_product" -> add_product_to_cart(W, product)
    [] action = "confirm_cart" -> get_cart_summary(W)
    [] action = "collect_customer_info" ->
         Await(Call(SetCx(W, update_state(Cx(W), COLLECTING_INFO)), "extract"),
               "await_extract")
    [] action = "create_order" ->
         IF ~is_customer_info_complete(Cx(W))
         THEN Await(Call(W, "extract"), "await_extract_order")
         ELSE create_order(W)
    [] action = "clarification" -> clarification(W)
    [] OTHER -> unknown_action(W)

\* me.outcome: what the backend answered to the turn's add-item or order-create.
Answered(W, outcome) == [W EXCEPT !.me.outcome = outcome]

\* Line 96-101, once add-item has answered.
add_product_done_state_first(W0, success) ==
  LET W == SetCx(Answered(W0, IF success THEN "ok" ELSE "none"),
                 update_state(Cx(W0), TAKING_ORDER)) IN
  IF success THEN Return(W, voice_response("ai", FALSE))
  ELSE Return(W, voice_response("retry_add", FALSE))

add_product_done(W0, success) ==
  LET W == Answered(W0, IF success THEN "ok" ELSE "none") IN
  IF success
  THEN Return(SetCx(W, update_state(Cx(W), TAKING_ORDER)), voice_response("ai", FALSE))
  ELSE Return(W, voice_response("retry_add", FALSE))

\* Lines 109-111 and 135-136, once the extractor has answered.
collect_done_state_kept(W, info) ==
  LET got == collect_customer_info(Cx(W), info) IN
  Return(SetCx(W, [got.cx EXCEPT !.state = W.me.prior]), got.res)

collect_done(W, info) ==
  LET got == collect_customer_info(Cx(W), info) IN
  Return(SetCx(W, got.cx), got.res)

\* Lines 120-129, once the extractor has answered.
create_order_after_extract_unchecked(W, info) ==
  LET got == collect_customer_info(Cx(W), info)
      W1 == SetCx(W, got.cx)
  IN  IF is_customer_info_complete(got.cx) THEN create_order(W1)
      ELSE Return(W1, got.res)

create_order_after_extract(W, info) ==
  LET got == collect_customer_info(Cx(W), info)
      W1 == SetCx(W, got.cx)
  IN  IF is_customer_info_complete(got.cx) THEN create_order(W1)
      ELSE Return(SetCx(W1, update_state(got.cx, COLLECTING_INFO)), got.res)

\* Lines 331-349, once order-create has answered: a result, None, or anything
\* raising inside the try block.
create_order_done_state_first(W0, outcome) ==
  LET W == SetCx(Answered(W0, outcome), update_state(Cx(W0), ORDER_COMPLETE)) IN
  CASE outcome = "ok" -> Return(W, voice_response("order_confirmed", TRUE))
    [] outcome = "none" -> Return(W, error_response("order_failed"))
    [] OTHER -> Return(W, error_response("order_problem"))

create_order_done(W0, outcome) ==
  LET W == Answered(W0, outcome) IN
  CASE outcome = "ok" ->
         Return(SetCx(W, update_state(Cx(W), ORDER_COMPLETE)),
                voice_response("order_confirmed", TRUE))
    [] outcome = "none" -> Return(W, error_response("order_failed"))
    [] OTHER -> Return(W, error_response("order_problem"))

(* ---------------- conversation_manager.py 25-82, langchain_service.py 136-202 ---------------- *)
\* process_customer_input up to `await conversation.apredict`: the memory is
\* looked up or made, and context.to_dict() was taken when the call was made.
process_customer_input(W) ==
  Await([W EXCEPT !.mem = @ \cup {W.me.call}, !.me.snap = to_dict(Cx(W))],
        "await_ai")

\* Lines 42-54.
after_context(W) ==
  LET W1 == SetCx(W, [Cx(W) EXCEPT !.last = W.me.msg]) IN
  IF ~Cx(W1).catalog THEN Await(W1, "await_catalog")
  ELSE process_customer_input(W1)

\* _get_or_create_context up to `await pizza_api.create_cart`.
get_or_create_context(W) ==
  LET c == W.me.call
      o == NewObj(W)
  IN  IF W.conv[c] # 0 THEN [W EXCEPT !.me.ctx = W.conv[c]]
      ELSE Await([W EXCEPT !.heap[o] = ConversationContext(NewList(W)),
                           !.me.ctx = o],
                 "await_cart")

\* Lines 77-82: the token is kept if a cart came back; the session is stored.
\* The backend's tokens are all different: a cart is named after the request
\* that asked for it.
store_context(W, cart_ok) ==
  LET W1 == IF cart_ok THEN SetCx(W, [Cx(W) EXCEPT !.cart_token = W.me.req]) ELSE W
  IN  [W1 EXCEPT !.conv[W.me.call] = W.me.ctx, !.me.pc = "run"]

\* The handler goes on after _get_or_create_context has returned:
\* handle_incoming_call answers with the stream TwiML, a turn goes on to line 42.
have_context(W) ==
  IF W.me.kind = "incoming" THEN [W EXCEPT !.me.pc = "done"] ELSE after_context(W)

process_customer_message(W) ==
  LET W1 == get_or_create_context(W) IN
  IF W1.me.pc = "run" THEN have_context(W1) ELSE W1

catalog_done_engine_anyway(W, ok) ==
  process_customer_input(SetCx(W, [Cx(W) EXCEPT !.catalog = ok]))

\* Lines 45-47, once the catalog request has answered.
catalog_done(W, ok) ==
  LET W1 == SetCx(W, [Cx(W) EXCEPT !.catalog = ok]) IN
  IF ~ok THEN Return(W1, error_response("no_menu")) ELSE process_customer_input(W1)

UserTurn(m) == [role |-> "user", content |-> m]
AssistantTurn == [role |-> "assistant", content |-> "ai"]

\* The context the engine hands back (langchain_service.py 176-202): on
\* success the same history list, extended in place; on an exception the
\* context as it was given and the action "error".
engine_result(W, r) ==
  IF r.ok
  THEN [W EXCEPT !.lists[W.me.snap.hist] =
                   Append(Append(@, UserTurn(W.me.msg)), AssistantTurn)]
  ELSE W

\* Lines 56-63, once the engine has answered: the context is rebuilt from the
\* returned dict, keeps the catalog of the object held so far, and is stored.
rebuild_context(W) ==
  LET o == NewObj(W)
      cx == [from_dict(W.me.snap) EXCEPT !.catalog = Cx(W).catalog]
  IN  [W EXCEPT !.heap[o] = cx, !.conv[W.me.call] = o,
                !.me.ctx = o, !.me.snap = NoSnap, !.me.prior = cx.state,
                !.me.was_complete = is_customer_info_complete(cx),
                !.me.before = cx]

engine_done(W, r) ==
  LET action == IF r.ok THEN r.action ELSE "error"
      W1 == rebuild_context(engine_result(W, r))
      product == IF r.ok THEN r.product ELSE ""
  IN  execute_action([W1 EXCEPT !.me.action = action, !.me.product = product],
                     action, product)

(* ---------------- voice_handler.py 158-178, langchain_service.py 204-208 ---------------- *)
TerminalStatus == {"completed", "busy", "no-answer", "failed", "canceled"}
CallStatus == TerminalStatus \cup {"ringing", "in-progress"}

\* call_status, as the session store and the engine's memories see it.
destroy_unguarded(W, c, s) ==
  IF s \in TerminalStatus
  THEN [W EXCEPT !.conv[c] = 0, !.mem = @ \ {c}, !.cleared = 1]
  ELSE W

destroy_keeps_session(W, c, s) ==
  IF s \in TerminalStatus /\ W.conv[c] # 0
  THEN [W EXCEPT !.mem = @ \ {c}, !.cleared = 1]
  ELSE W

destroy(W, c, s) ==
  IF s \in TerminalStatus /\ W.conv[c] # 0
  THEN [W EXCEPT !.conv[c] = 0, !.mem = @ \ {c}, !.cleared = 1]
  ELSE W

(* ---------------- media_stream_handler.py ---------------- *)
\* handle_websocket once the socket is accepted (lines 31-40): the connection
\* is registered under the call and the greeting is attempted.
open_stream(W) ==
  send_audio_response([W EXCEPT !.streams[W.me.call] = W.self], "greeting")

cleanup_stream_all(W) ==
  [W EXCEPT !.streams = [c \in Calls |-> ""], !.bufs = [c \in Calls |-> -1],
            !.sids = [c \in Calls |-> ""], !.me = IdleTask]

\* _cleanup_stream (lines 210-218).
cleanup_stream(W) ==
  LET c == W.me.call IN
  [W EXCEPT !.streams[c] = "", !.bufs[c] = -1, !.sids[c] = "", !.me = IdleTask]

process_accumulated_audio_unguarded(W) ==
  LET c == W.me.call
      W1 == [W EXCEPT !.bufs[c] = 0, !.me.flushed = W.bufs[c],
                      !.me.req = nReq + 1, !.me.ops = <<>>, !.me.res = NoRes,
                      !.me.action = "", !.me.prior = "", !.me.said = "",
                      !.me.was_complete = FALSE, !.me.outcome = "",
                      !.me.before = FreeCtx, !.me.product = ""]
  IN  [W1 EXCEPT !.me.pc = "in_whisper"]

\* _process_accumulated_audio (lines 93-139) up to the call of Whisper.
\* The Whisper request blocks the handler without suspending it; it answers
\* with a text, an empty text, or raises.
process_accumulated_audio(W) ==
  LET c == W.me.call IN
  IF W.bufs[c] <= 0 THEN W
  ELSE LET W1 == [W EXCEPT !.bufs[c] = 0, !.me.flushed = W.bufs[c],
                           !.me.req = nReq + 1, !.me.ops = <<>>, !.me.res = NoRes,
                           !.me.action = "", !.me.prior = "", !.me.said = "",
                           !.me.was_complete = FALSE, !.me.outcome = "",
                           !.me.before = FreeCtx, !.me.product = ""]
       IN  [W1 EXCEPT !.me.pc = "in_whisper"]

transcribed_regardless(W) ==
  process_customer_message(
    [W EXCEPT !.me.msg = W.env.text, !.me.pc = "run", !.me.ctx = 0])

\* The rest of _process_accumulated_audio once the Whisper call is back
\* (lines 141-159): an exception or an empty text ends the pass.
transcribed(W) ==
  IF W.env.whisper # "text" \/ W.env.text = "" THEN [W EXCEPT !.me.pc = "recv"]
  ELSE process_customer_message(
         [W EXCEPT !.me.msg = W.env.text, !.me.pc = "run", !.me.ctx = 0])

process_media_message_resetting(W, frame) ==
  LET c == W.me.call IN
  CASE frame.event = "start" -> [W EXCEPT !.sids[c] = frame.sid]
    [] frame.event = "media" ->
         IF frame.len = 0 THEN W
         ELSE [W EXCEPT !.bufs[c] = (IF @ < 0 THEN 0 ELSE @) + frame.len]
    [] frame.event = "stop" -> process_accumulated_audio(W)
    [] OTHER -> [W EXCEPT !.bufs[c] = -1, !.sids[c] = ""]

\* _process_media_message (lines 63-91); a frame that is not JSON never gets here.
process_media_message(W, frame) ==
  LET c == W.me.call IN
  CASE frame.event = "start" -> [W EXCEPT !.sids[c] = frame.sid]
    [] frame.event = "media" ->
         IF frame.len = 0 THEN W
         ELSE [W EXCEPT !.bufs[c] = (IF @ < 0 THEN 0 ELSE @) + frame.len]
    [] frame.event = "stop" -> process_accumulated_audio(W)
    [] OTHER -> W

\* json.loads raises (lines 45, 51-52): the text never reaches the dispatch.
NotJson == [json |-> FALSE, event |-> "", sid |-> "", len |-> 0]

\* One pass of the read loop on whatever receive_text returned (lines 44-55).
read_loop_pass(W, data) ==
  IF ~data.json THEN W
  ELSE process_media_message(W, [event |-> data.event, sid |-> data.sid, len |-> data.len])

(* ---------------- the handlers as actions ---------------- *)
Env == [synth : BOOLEAN, whisper : {"text"}, text : {""}]
Quiet == [synth |-> TRUE, whisper |-> "text", text |-> ""]

\* Only the media stream synthesizes the reply itself.
EnvFor(t) == IF tasks[t].kind = "ws" THEN [synth : BOOLEAN, whisper : {"text"}, text : {""}]
             ELSE {Quiet}

Start(t, kind, c, m) ==
  [World(t, Quiet) EXCEPT !.me = [IdleTask EXCEPT !.kind = kind, !.call = c,
                                                  !.msg = m, !.pc = "run",
                                                  !.req = nReq + 1]]

\* client.audio.transcriptions.create (media_stream_handler.py 135-139) is the
\* synchronous client called inside a coroutine: until it returns, the event
\* loop runs nothing else.
Unblocked == \A u \in Slots : tasks[u].pc # "in_whisper"

\* POST /voice/incoming (voice_handler.py 13-52).
handle_incoming_call(t, c, maxReq) ==
  /\ Unblocked
  /\ tasks[t].pc = "idle" /\ nReq < maxReq
  /\ Commit(t, process_customer_message(Start(t, "incoming", c, "")))
  /\ nReq' = nReq + 1
  /\ UNCHANGED <<clearCalls, notified, received>>

\* POST /voice/process-speech (voice_handler.py 54-88).
process_speech(t, c, m, maxReq) ==
  /\ Unblocked
  /\ tasks[t].pc = "idle" /\ nReq < maxReq
  /\ Commit(t, process_customer_message(Start(t, "speech", c, m)))
  /\ nReq' = nReq + 1
  /\ UNCHANGED <<clearCalls, notified, received>>

\* The webhook's response has gone out.
finish(t) ==
  /\ Unblocked
  /\ tasks[t].pc = "done"
  /\ Commit(t, [World(t, Quiet) EXCEPT !.me = IdleTask])
  /\ UNCHANGED <<nReq, clearCalls, notified, received>>

Resume(t, at, W) ==
  /\ Unblocked
  /\ tasks[t].pc = at
  /\ Commit(t, W)
  /\ UNCHANGED <<nReq, clearCalls, notified, received>>

Running(t, env) == [World(t, env) EXCEPT !.me.pc = "run"]

create_cart_returns(t, cart_ok) ==
  Resume(t, "await_cart", have_context(store_context(Running(t, Quiet), cart_ok)))

get_catalog_returns(t, ok, env) ==
  /\ env \in EnvFor(t)
  /\ Resume(t, "await_catalog", catalog_done(Running(t, env), ok))

engine_returns(t, r, env) ==
  /\ env \in EnvFor(t)
  /\ Resume(t, "await_ai", engine_done(Running(t, env), r))

add_product_returns(t, success, env) ==
  /\ env \in EnvFor(t)
  /\ Resume(t, "await_add", add_product_done(Running(t, env), success))

get_cart_returns(t, env) ==
  /\ env \in EnvFor(t)
  /\ Resume(t, "await_getcart", confirm_cart_done(Running(t, env)))

extractor_returns(t, info, env) ==
  /\ env \in EnvFor(t)
  /\ \/ Resume(t, "await_extract", collect_done(Running(t, env), info))
     \/ Resume(t, "await_extract_order", create_order_after_extract(Running(t, env), info))

create_order_returns(t, outcome, env) ==
  /\ env \in EnvFor(t)
  /\ Resume(t, "await_order", create_order_done(Running(t, env), outcome))

\* POST /voice/status (voice_handler.py 158-178).
call_status(c, s) ==
  LET t0 == CHOOSE t \in Slots : TRUE
      W == destroy(World(t0, Quiet), c, s)
  IN  /\ Unblocked
      /\ s \in TerminalStatus => notified[c] < MaxStatus
      /\ Install(tasks, W)
      /\ clearCalls' = [clearCalls EXCEPT ![c] = @ + W.cleared]
      /\ notified' = [notified EXCEPT ![c] = IF s \in TerminalStatus THEN @ + 1 ELSE @]
      /\ UNCHANGED <<nReq, received>>

\* The websocket endpoint (voice_handler.py 90-93, media_stream_handler.py 26-40).
handle_websocket(t, c, synth, maxReq) ==
  /\ Unblocked
  /\ tasks[t].pc = "idle" /\ nReq < maxReq
  /\ Commit(t, open_stream([Start(t, "ws", c, "") EXCEPT !.env.synth = synth]))
  /\ nReq' = nReq + 1
  /\ UNCHANGED <<clearCalls, notified, received>>

\* `await websocket.send_text` returns or raises (lines 204-208).
send_text_returns(t, ok) ==
  LET W == World(t, Quiet)
      c == W.me.call
      frame == [sock |-> W.me.sock, streamSid |-> W.me.sid, text |-> W.me.said]
  IN  Resume(t, "await_send",
             [W EXCEPT !.me.pc = "recv", !.me.sock = "", !.me.sid = "",
                       !.outbox[c] = IF ok THEN Append(@, frame) ELSE @])

\* One pass of the read loop (lines 43-55) on a frame that parses.
receive_frame(t, frame, maxReq) ==
  /\ Unblocked
  /\ tasks[t].pc = "recv"
  /\ frame.event = "media" => audio_buffers[tasks[t].call] + frame.len <= MaxBuf
  /\ frame.event = "stop" /\ audio_buffers[tasks[t].call] > 0 => nReq < maxReq
  /\ LET W == process_media_message(World(t, Quiet), frame) IN
     /\ Commit(t, W)
     /\ nReq' = IF frame.event = "stop" /\ audio_buffers[tasks[t].call] > 0
                THEN nReq + 1 ELSE nReq
  /\ received' = [received EXCEPT ![tasks[t].call] =
                    CASE frame.event = "media" -> @ + frame.len
                      [] frame.event = "stop" -> 0
                      [] OTHER -> @]
  /\ UNCHANGED <<clearCalls, notified>>

\* receive_text hands over something that is not JSON: logged, the loop goes on.
receive_garbage(t) ==
  /\ Unblocked
  /\ tasks[t].pc = "recv"
  /\ Commit(t, read_loop_pass(World(t, Quiet), NotJson))
  /\ UNCHANGED <<nReq, clearCalls, notified, received>>

\* The Whisper call returns a text, returns nothing, or raises.
whisper_returns(t, env) ==
  /\ tasks[t].pc = "in_whisper"
  /\ Commit(t, transcribed(World(t, env)))
  /\ UNCHANGED <<nReq, clearCalls, notified, received>>

\* receive_text raises WebSocketDisconnect: the loop ends, the finally cleans up.
disconnect(t) ==
  /\ Unblocked
  /\ tasks[t].pc = "recv"
  /\ Commit(t, cleanup_stream(World(t, Quiet)))
  /\ received' = [received EXCEPT ![tasks[t].call] =
                    IF \E u \in Slots \ {t} :
                         tasks[u].kind = "ws" /\ tasks[u].call = tasks[t].call
                    THEN @ ELSE 0]
  /\ UNCHANGED <<nReq, clearCalls, notified>>

(* ---------------- transcribe_service.py 54-91 ---------------- *)
MaxWait == 60
PollInterval == 2

\* The clock of the wait; the model stops counting a little after the bound.
Later(elapsed, d) == Min({elapsed + d, MaxWait + PollInterval + MaxOversleep})

keeps_waiting_unbounded(w) == TRUE

\* The loop test `time.time() - start_time < max_wait` (line 68).
keeps_waiting(w) == w.elapsed < MaxWait

\* One pass of the loop up to its next await (lines 68-87): the test, the
\* call of get_transcription_job, which takes d seconds and answers with a
\* status or raises, and what the status leads to.
poll(w, answer, d) ==
  IF ~keeps_waiting(w) THEN [w EXCEPT !.pc = "returned", !.result = "none"]
  ELSE LET w1 == [w EXCEPT !.elapsed = Later(@, d), !.seen = answer] IN
       CASE answer = "COMPLETED" -> [w1 EXCEPT !.pc = "extract"]
         [] answer \in {"FAILED", "raise"} -> [w1 EXCEPT !.pc = "returned", !.result = "none"]
         [] OTHER -> [w1 EXCEPT !.pc = "sleep"]

\* The rest of the program, which a step of the wait leaves alone.
Program ==
  <<active_conversations, heap, lists, memories, tasks, active_streams,
    audio_buffers, stream_sids, clearCalls, notified, orderLog, outbox, nReq,
    received>>

\* transcribe_audio_from_url has started the job and awaits the wait (line 48).
wait_for_transcription ==
  /\ waiter.pc = "idle"
  /\ waiter' = [IdleWaiter EXCEPT !.pc = "loop"]
  /\ UNCHANGED Program

poll_job(answer, d) ==
  /\ waiter.pc = "loop"
  /\ waiter' = poll(waiter, answer, d)
  /\ UNCHANGED Program

\* `await asyncio.sleep(2)` is over, 2 seconds later or somewhat more.
sleep_returns(d) ==
  /\ waiter.pc = "sleep"
  /\ waiter' = [waiter EXCEPT !.pc = "loop", !.elapsed = Later(@, PollInterval + d)]
  /\ UNCHANGED Program

\* _extract_transcript_text (lines 93-120) returns the text, an empty text,
\* or None; it raises nothing.
extract_returns(out) ==
  /\ waiter.pc = "extract"
  /\ waiter' = [waiter EXCEPT !.pc = "returned", !.extracted = out, !.result = out]
  /\ UNCHANGED Program

JobAnswers == {"QUEUED", "IN_PROGRESS", "COMPLETED", "FAILED", "raise"}

NextWait ==
  \/ wait_for_transcription
  \/ \E answer \in JobAnswers, d \in 0..MaxCallTime : poll_job(answer, d)
  \/ \E d \in 0..MaxOversleep : sleep_returns(d)
  \/ \E out \in {"text", "empty", "none"} : extract_returns(out)

\* The calls of boto3 and httpx return or raise and the sleep ends, so a wait
\* that can take its next step takes it.
SpecWait ==
  /\ Init /\ [][NextWait]_vars
  /\ WF_vars(wait_for_transcription)
  /\ WF_vars(\E answer \in JobAnswers, d \in 0..MaxCallTime : poll_job(answer, d))
  /\ WF_vars(\E d \in 0..MaxOversleep : sleep_returns(d))
  /\ WF_vars(\E out \in {"text", "empty", "none"} : extract_returns(out))

(* ---------------- what the collaborators and callers may hand in ---------------- *)
EngineAnswers(actions, products) ==
  {[ok |-> TRUE, action |-> a, product |-> ""] : a \in actions \ {"add_product"}}
    \cup {[ok |-> TRUE, action |-> "add_product", product |-> p] :
            p \in IF "add_product" \in actions THEN products ELSE {}}
    \cup {[ok |-> FALSE, action |-> "", product |-> ""]}

ActionTags ==
  {"welcome", "add_product", "confirm_cart", "collect_customer_info",
   "create_order", "clarification", "error", "chitchat"}

Products == {"", "margarita", "sushi"}

OtherPhone == <<"6", "6", "6", "1", "2", "3", "4">>
ShortPhone == <<"5", "5", "5", "-", "1", "2", "3">>
GoodPhone == <<"5", "5", "5", " ", "1", "2", "3", "4">>

\* What Whisper and Polly may do with an utterance (lines 128-141, 172-181).
Transcriptions(msgs) ==
  [synth : BOOLEAN, whisper : {"text", "empty", "raise"}, text : msgs \cup {""}]

StopFrame == [event |-> "stop", sid |-> "", len |-> 0]

\* sc: the calls, handler slots and inputs a specification ranges over.
Webhooks(sc) ==
  \/ \E t \in sc.slots, c \in sc.calls : handle_incoming_call(t, c, sc.maxReq)
  \/ \E t \in sc.slots, c \in sc.calls, m \in sc.msgs : process_speech(t, c, m, sc.maxReq)
  \/ \E t \in sc.slots : finish(t)

StatusCallbacks(sc) ==
  \E c \in sc.calls, s \in sc.status : call_status(c, s)

Engine(sc) ==
  \/ \E t \in sc.slots, ok \in BOOLEAN : create_cart_returns(t, ok)
  \/ \E t \in sc.slots, ok \in BOOLEAN, env \in Env : get_catalog_returns(t, ok, env)
  \/ \E t \in sc.slots, r \in sc.engine, env \in Env : engine_returns(t, r, env)

Ordering(sc) ==
  \/ \E t \in sc.slots, info \in sc.infos, env \in Env : extractor_returns(t, info, env)
  \/ \E t \in sc.slots, out \in {"ok", "none", "raise"}, env \in Env :
       create_order_returns(t, out, env)

Shopping(sc) ==
  \/ \E t \in sc.slots, ok \in BOOLEAN, env \in Env : add_product_returns(t, ok, env)
  \/ \E t \in sc.slots, env \in Env : get_cart_returns(t, env)

Streams(sc) ==
  \/ \E t \in sc.slots, c \in sc.calls, synth \in BOOLEAN :
       handle_websocket(t, c, synth, sc.maxReq)
  \/ \E t \in sc.slots, ok \in BOOLEAN : send_text_returns(t, ok)
  \/ \E t \in sc.slots, frame \in sc.frames : receive_frame(t, frame, sc.maxReq)
  \/ \E t \in sc.slots, env \in Transcriptions(sc.msgs) : whisper_returns(t, env)
  \/ \E t \in sc.slots : receive_garbage(t)
  \/ \E t \in sc.slots : disconnect(t)

\* Two webhook requests in flight for one call.
Overlapping ==
  [calls |-> {"A1"}, slots |-> {"t1", "t2"}, maxReq |-> MaxReq, msgs |-> {"hola"},
   status |-> {"completed", "in-progress"},
   engine |-> EngineAnswers({"welcome"}, {}),
   infos |-> [name : {"Ana"}, phone : {GoodPhone}, address : {"Calle 1"}]]

\* One caller's dialogue, turn after turn.
Dialogue ==
  [calls |-> {"A1"}, slots |-> {"t1"}, maxReq |-> MaxReqDialogue, msgs |-> {"hola"},
   status |-> {"completed", "ringing"},
   engine |-> EngineAnswers(ActionTags, Products),
   infos |-> [name : {"", "Ana"}, phone : {<<>>, ShortPhone, GoodPhone},
              address : {"", "Calle 1"}]]

\* One call on a media stream.
Streaming ==
  [calls |-> {"A1"}, slots |-> {"t1"}, maxReq |-> MaxReqStream, msgs |-> {"hola"},
   status |-> {"completed"},
   engine |-> EngineAnswers({"welcome", "create_order"}, {}),
   infos |-> [name : {"Ana"}, phone : {GoodPhone}, address : {"Calle 1"}],
   frames |-> {[event |-> "connected", sid |-> "", len |-> 0],
               [event |-> "start", sid |-> "MZ1", len |-> 0],
               [event |-> "media", sid |-> "", len |-> 1],
               [event |-> "stop", sid |-> "", len |-> 0],
               [event |-> "mark", sid |-> "", len |-> 0]}]

\* One caller who keeps being asked to repeat.
Reprompts ==
  [calls |-> {"A1"}, slots |-> {"t1"}, maxReq |-> MaxReqReprompts, msgs |-> {"hola"},
   status |-> {"completed"},
   engine |-> EngineAnswers({"welcome", "clarification", "add_product", "confirm_cart"},
                            {"margarita"}),
   infos |-> [name : {"Ana"}, phone : {GoodPhone}, address : {"Calle 1"}]]

\* Two turns of one call in flight at once, giving their details.
Racing ==
  [calls |-> {"A1"}, slots |-> {"t1", "t2"}, maxReq |-> MaxReqRacing, msgs |-> {"hola"},
   status |-> {"completed"},
   engine |-> EngineAnswers({"collect_customer_info", "create_order"}, {}),
   infos |-> [name : {"", "Ana"}, phone : {GoodPhone}, address : {"Calle 1"}]]

\* One caller giving details, now one value for a field, now another.
Details ==
  [calls |-> {"A1"}, slots |-> {"t1"}, maxReq |-> MaxReqDetails, msgs |-> {"hola"},
   status |-> {"completed"},
   engine |-> EngineAnswers({"collect_customer_info"}, {}),
   infos |-> [name : {"", "Ana", "Eva"}, phone : {<<>>, ShortPhone, GoodPhone, OtherPhone},
              address : {"", "Calle 1", "Calle 2"}]]

\* Two calls at the same time, by webhook or by media stream.
Pair ==
  [calls |-> {"A1", "B2"}, slots |-> {"t1", "t2"}, maxReq |-> MaxReqPair,
   msgs |-> {"hola"}, status |-> {"completed"},
   engine |-> EngineAnswers({"welcome"}, {}),
   infos |-> [name : {"Ana"}, phone : {GoodPhone}, address : {"Calle 1"}],
   frames |-> {[event |-> "start", sid |-> "MZ1", len |-> 0],
               [event |-> "media", sid |-> "", len |-> 1],
               [event |-> "stop", sid |-> "", len |-> 0]}]

\* What one of the two calls does: its requests, one at a time.
Lane(c) == [Pair EXCEPT !.calls = {c}, !.slots = {IF c = "A1" THEN "t1" ELSE "t2"}]

\* Two calls side by side, each giving its details.
Apart ==
  [Pair EXCEPT !.maxReq = MaxReqApart,
               !.engine = EngineAnswers({"collect_customer_info"}, {})]

Side(c) == [Apart EXCEPT !.calls = {c}, !.slots = {IF c = "A1" THEN "t1" ELSE "t2"}]

\* One connection and every kind of frame it may be sent, a second start
\* frame and frames of unknown events included.
Listening ==
  [calls |-> {"A1"}, slots |-> {"t1"}, maxReq |-> MaxReqListen, msgs |-> {"hola"},
   status |-> {"completed"},
   engine |-> EngineAnswers({"welcome"}, {}),
   infos |-> [name : {"Ana"}, phone : {GoodPhone}, address : {"Calle 1"}],
   frames |-> {[event |-> "connected", sid |-> "", len |-> 0],
               [event |-> "start", sid |-> "MZ1", len |-> 0],
               [event |-> "start", sid |-> "MZ2", len |-> 0],
               [event |-> "media", sid |-> "", len |-> 0],
               [event |-> "media", sid |-> "", len |-> 1],
               [event |-> "stop", sid |-> "", len |-> 0],
               [event |-> "mark", sid |-> "MZ9", len |-> 1]}]

\* One call's media stream, utterance after utterance; a second connection
\* for the call may open while the first is still there.
Frames ==
  [calls |-> {"A1"}, slots |-> {"t1", "t2"}, maxReq |-> MaxReqFrames, msgs |-> {"hola"},
   status |-> {"completed"},
   engine |-> EngineAnswers({"welcome"}, {}),
   infos |-> [name : {"Ana"}, phone : {GoodPhone}, address : {"Calle 1"}],
   frames |-> {[event |-> "connected", sid |-> "", len |-> 0],
               [event |-> "start", sid |-> "MZ1", len |-> 0],
               [event |-> "media", sid |-> "", len |-> 0],
               [event |-> "media", sid |-> "", len |-> 1],
               [event |-> "stop", sid |-> "", len |-> 0]}]

Next == Webhooks(Overlapping) \/ StatusCallbacks(Overlapping) \/ Engine(Overlapping)
Spec == Init /\ [][Next]_vars

NextDialogue ==
  \/ Webhooks(Dialogue) \/ StatusCallbacks(Dialogue)
  \/ Engine(Dialogue) \/ Ordering(Dialogue) \/ Shopping(Dialogue)
SpecDialogue == Init /\ [][NextDialogue]_vars

NextStream ==
  \/ Streams(Streaming) \/ StatusCallbacks(Streaming)
  \/ Engine(Streaming) \/ Ordering(Streaming)
SpecStream == Init /\ [][NextStream]_vars

NextReprompts ==
  \/ Webhooks(Reprompts) \/ StatusCallbacks(Reprompts)
  \/ Engine(Reprompts) \/ Shopping(Reprompts)
SpecReprompts == Init /\ [][NextReprompts]_vars

NextFrames == Streams(Frames) \/ Engine(Frames)
SpecFrames == Init /\ [][NextFrames]_vars
NextListen == Streams(Listening) \/ Engine(Listening)
SpecListen == Init /\ [][NextListen]_vars
NextDetails ==
  \/ Webhooks(Details) \/ Engine(Details)
  \/ \E t \in Details.slots, info \in Details.infos, env \in Env :
       extractor_returns(t, info, env)
SpecDetails == Init /\ [][NextDetails]_vars
NextPair ==
  \E c \in Pair.calls :
    Streams(Lane(c)) \/ Webhooks(Lane(c)) \/ Engine(Lane(c))
SpecPair == Init /\ [][NextPair]_vars
\* A step of the handlers of call c.
StepOf(c) ==
  \/ Streams(Side(c)) \/ Webhooks(Side(c)) \/ Engine(Side(c))
  \/ \E t \in Side(c).slots, info \in Apart.infos, env \in Env :
       extractor_returns(t, info, env)
NextApart == \E c \in Apart.calls : StepOf(c)
SpecApart == Init /\ [][NextApart]_vars

NextRacing == Webhooks(Racing) \/ Engine(Racing) \/ Ordering(Racing)
SpecRacing == Init /\ [][NextRacing]_vars

(* ======================= the claims ======================= *)
Session(c) == heap[active_conversations[c]]
HasSession(c) == active_conversations[c] # 0
Creating(c) == {t \in Slots : tasks[t].pc = "await_cart" /\ tasks[t].call = c}
TurnOf(t) == heap[tasks[t].ctx]
Returned(t) == tasks[t].pc = "done" /\ tasks[t].kind = "speech"

\* C1: however create requests for a callId overlap, there is one CallSession
\* for it: a session is being created (its cart requested) only while none is
\* registered, and by one request at a time.
C1_OneSessionPerCall ==
  \A c \in Calls :
    Cardinality(Creating(c)) + (IF HasSession(c) THEN 1 ELSE 0) <= 1

\* C2: a terminal call-status for a call that has a session leaves the registry
\* without an entry for it and invokes clear_memory for it exactly once.
C2_TerminalStatusDestroys ==
  [][\A c \in Calls :
       (HasSession(c) /\ \E s \in TerminalStatus : call_status(c, s))
         => /\ active_conversations'[c] = 0
            /\ clearCalls'[c] = clearCalls[c] + 1
            /\ c \notin memories']_vars

C2_Witness ==
  notified["A1"] = 1 /\ clearCalls["A1"] = 1 /\ ~HasSession("A1")

\* C3: when a turn resumes from a collaborator call and its call's session has
\* been destroyed meanwhile, the result is dropped: the registry still holds no
\* session for the call.
SuspendedInTurn ==
  {"await_catalog", "await_ai", "await_add", "await_getcart", "await_extract",
   "await_extract_order", "await_order"}

C3_LateResultsDiscarded ==
  [][\A t \in Slots :
       (/\ tasks[t].pc \in SuspendedInTurn
        /\ ~HasSession(tasks[t].call)
        /\ tasks'[t].pc # tasks[t].pc)
         => active_conversations'[tasks[t].call] = 0]_vars

\* C4: when a call's websocket disconnects, the registry drops the call's
\* session, the audio buffer is discarded and the engine's memory is cleared.
C4_DisconnectDestroysSession ==
  [][\A t \in Slots :
       (tasks[t].kind = "ws" /\ tasks'[t].kind = "idle")
         => /\ active_conversations'[tasks[t].call] = 0
            /\ audio_buffers'[tasks[t].call] = -1
            /\ tasks[t].call \notin memories']_vars

\* C5: a terminal call-status for a call without a session changes no registry
\* entry and no memory and does not invoke clear_memory.
C5_DestroyIdempotent ==
  [][\A c \in Calls :
       (~HasSession(c) /\ \E s \in TerminalStatus : call_status(c, s))
         => /\ active_conversations' = active_conversations
            /\ clearCalls' = clearCalls
            /\ memories' = memories]_vars

C5_Witness ==
  notified["A1"] = 2 /\ clearCalls["A1"] = 1 /\ ~HasSession("A1")

\* C6: the state of every context is one of the six dialogue states.
DialogueStates ==
  {WELCOME, TAKING_ORDER, CONFIRMING_CART, COLLECTING_INFO, CREATING_ORDER,
   ORDER_COMPLETE}

C6_StateEnumerated == \A o \in ObjIds : heap[o].state \in DialogueStates

C6_Witness ==
  \E t \in Slots :
    /\ Returned(t) /\ tasks[t].action = "chitchat"
    /\ HasSession(tasks[t].call) /\ Session(tasks[t].call).state = CONFIRMING_CART

\* C7: a context in CREATING_ORDER has a name, a phone and an address.
C7_CreatingOrderHasInfo ==
  \A o \in ObjIds :
    heap[o].state = CREATING_ORDER
      => heap[o].name # "" /\ heap[o].phone # <<>> /\ heap[o].address # ""

C7_Witness ==
  \E t \in Slots :
    /\ Returned(t) /\ tasks[t].prior = COLLECTING_INFO
    /\ TurnOf(t).state = CREATING_ORDER

\* C8: every order-create request carries a name, a phone and an address; a
\* create_order turn that starts with incomplete info asks the extractor before
\* anything else, and if the info is still incomplete it makes no order-create
\* request and ends in COLLECTING_INFO.
C8_OrderOnlyWithInfo ==
  /\ \A r \in orderLog : r.name # "" /\ r.phone # <<>> /\ r.address # ""
  /\ \A t \in Slots :
       (Returned(t) /\ tasks[t].action = "create_order" /\ ~tasks[t].was_complete)
         => /\ tasks[t].ops # <<>> /\ tasks[t].ops[1] = "extract"
            /\ ~is_customer_info_complete(TurnOf(t))
                 => /\ tasks[t].ops = <<"extract">>
                    /\ TurnOf(t).state = COLLECTING_INFO

C8_Witness ==
  \E t \in Slots :
    /\ Returned(t) /\ tasks[t].action = "create_order" /\ ~tasks[t].was_complete
    /\ ~is_customer_info_complete(TurnOf(t))
    /\ tasks[t].prior = TAKING_ORDER
    /\ TurnOf(t).name # ""

\* C9: a create_order turn that starts with complete info ends in
\* ORDER_COMPLETE with a hangup when order-create succeeds, and in the state it
\* started in with an error prompt when order-create fails or raises.
C9_OrderOutcome ==
  \A t \in Slots :
    (Returned(t) /\ tasks[t].action = "create_order" /\ tasks[t].was_complete)
      => /\ tasks[t].ops = <<"order">>
         /\ tasks[t].outcome = "ok"
              => /\ TurnOf(t).state = ORDER_COMPLETE
                 /\ tasks[t].res.message = "order_confirmed"
                 /\ tasks[t].res.hangup
         /\ tasks[t].outcome # "ok"
              => /\ TurnOf(t).state = tasks[t].prior
                 /\ tasks[t].res.action = "error"
                 /\ tasks[t].res.message \in {"order_failed", "order_problem"}

C9_Witness ==
  \E t \in Slots :
    /\ Returned(t) /\ tasks[t].action = "create_order" /\ tasks[t].was_complete
    /\ tasks[t].outcome = "raise" /\ TurnOf(t).state = CREATING_ORDER

\* C10: once the confirmation of a created order has been transmitted on a
\* media stream, the engine closes the connection: the handler does not go
\* back to reading frames from it.
ConfirmationSent(c) ==
  \E i \in DOMAIN outbox[c] : outbox[c][i].text = "order_confirmed"

C10_HangsUpAfterOrder ==
  \A t \in Slots :
    (/\ tasks[t].kind = "ws"
     /\ tasks[t].res.message = "order_confirmed" /\ tasks[t].res.hangup
     /\ ConfirmationSent(tasks[t].call))
      => tasks[t].pc # "recv"

\* C11: a clarification received in a state other than COLLECTING_INFO adds
\* one to the attempt counter and leaves the state as it was; the response is
\* the hand-off message exactly when the new count exceeds 3, and the engine's
\* reprompt when the new count is 1, 2 or 3.
Clarified(t) ==
  /\ Returned(t) /\ tasks[t].action = "clarification"
  /\ tasks[t].before.state # COLLECTING_INFO

C11_ClarificationThreshold ==
  \A t \in Slots :
    Clarified(t)
      => /\ TurnOf(t).attempts = tasks[t].before.attempts + 1
         /\ TurnOf(t).state = tasks[t].before.state
         /\ tasks[t].res.message = "handoff" <=> TurnOf(t).attempts > 3
         /\ TurnOf(t).attempts \in 1..3 => tasks[t].res.message = "ai"

C11_Witness ==
  \E t \in Slots :
    Clarified(t) /\ TurnOf(t).attempts = 4 /\ tasks[t].res.message = "handoff"

\* C12: the turn that answers with the hand-off message ends the call: its
\* response carries a hangup.
C12_HandOffEndsCall ==
  \A t \in Slots :
    (Returned(t) /\ tasks[t].res.message = "handoff") => tasks[t].res.hangup

\* C13: after a turn in which add-item succeeded, or in which the session
\* moved on from COLLECTING_INFO to order creation, the attempt counter is 0.
Progressed(t) ==
  /\ Returned(t)
  /\ \/ tasks[t].action = "add_product" /\ tasks[t].outcome = "ok"
     \/ /\ tasks[t].before.state = COLLECTING_INFO
        /\ TurnOf(t).state \in {CREATING_ORDER, ORDER_COMPLETE}

C13_AttemptsResetOnProgress ==
  \A t \in Slots : Progressed(t) => TurnOf(t).attempts = 0

\* C14: name, phone and address of a call's session are written once: while
\* the call has a session, a field that is set keeps its value, through every
\* step of every turn, the rebuild of the context from the engine's answer
\* included.
Kept(old, new) ==
  /\ old.name # "" => new.name = old.name
  /\ old.phone # <<>> => new.phone = old.phone
  /\ old.address # "" => new.address = old.address

C14_CustomerInfoWriteOnce ==
  [][\A c \in Calls :
       (HasSession(c) /\ HasSession(c)') => Kept(Session(c), Session(c)')]_vars

\* C15: the history of a call's session only grows at its end: while the
\* call has a session, the history before a step is a prefix of the history
\* after it; when the engine answers a turn, the history the turn goes on with
\* is the one it handed in followed by the customer turn and the assistant
\* turn, and the one it handed in unchanged if the engine failed.
History(c) == lists[Session(c).hist]

IsPrefix(a, b) == Len(a) <= Len(b) /\ SubSeq(b, 1, Len(a)) = a

C15_HistoryAppendOnly ==
  [][/\ \A c \in Calls :
          (HasSession(c) /\ HasSession(c)') => IsPrefix(History(c), History(c)')
     /\ \A t \in Slots, r \in EngineAnswers(ActionTags, Products), env \in Env :
          (tasks[t].pc = "await_ai" /\ engine_returns(t, r, env))
            => lists'[TurnOf(t)'.hist] =
                 IF r.ok
                 THEN lists[tasks[t].snap.hist]
                        \o <<UserTurn(tasks[t].msg), AssistantTurn>>
                 ELSE lists[tasks[t].snap.hist]]_vars

\* C16: the cart token of a call's session is the one stored when the session
\* was created: while the call has a session, no step changes its token.
C16_CartTokenImmutable ==
  [][\A c \in Calls :
       (HasSession(c) /\ HasSession(c)')
         => Session(c)'.cart_token = Session(c).cart_token]_vars

\* C17: a turn that finds the session in WELCOME and whose action is not
\* welcome leaves the state WELCOME and asks nothing of the commerce backend:
\* no add-item, no cart read, no order.
BackendOps == {"add_item", "get_cart", "order"}

C17_WelcomeFirst ==
  \A t \in Slots :
    (Returned(t) /\ tasks[t].before.state = WELCOME
       /\ tasks[t].action \notin {"", "welcome"})
      => /\ TurnOf(t).state = WELCOME
         /\ \A i \in DOMAIN tasks[t].ops : tasks[t].ops[i] \notin BackendOps

\* C18: an add_product turn whose product resolves in the catalog asks the
\* backend to add the item exactly once; if that succeeds the state is
\* TAKING_ORDER and the response is the engine's, if it fails the state is as
\* before and the response is the retry prompt; without a product name, or
\* with one the catalog does not resolve, nothing is asked of the backend, the
\* state is as before and the response is the retry prompt.
AddTurn(t) == Returned(t) /\ tasks[t].action = "add_product"

Resolves(t) == tasks[t].product # "" /\ find_product_by_name(tasks[t].product)

KnownActions ==
  {"welcome", "add_product", "confirm_cart", "collect_customer_info",
   "create_order", "clarification"}

Unrecognized(t) ==
  Returned(t) /\ tasks[t].action \notin KnownActions \cup {""}

C19_UnknownActionHarmless ==
  \A t \in Slots :
    Unrecognized(t)
      => /\ TurnOf(t) = tasks[t].before
         /\ tasks[t].ops = <<>>
         /\ tasks[t].res.message # ""
         /\ ~tasks[t].res.hangup

C19_Witness ==
  \E t \in Slots :
    /\ Unrecognized(t) /\ tasks[t].action = "error"
    /\ tasks[t].before.state = COLLECTING_INFO
    /\ tasks[t].before.name # "" /\ tasks[t].before.attempts > 0

\* C20: when a stop frame finds audio received for the call since its last
\* flush (or since the call's stream began), the amount handed to the
\* utterance processor is the sum of the decoded lengths of the media frames
\* received for the call since then, and the buffer is empty afterwards.
Flushes(t) ==
  /\ tasks[t].kind = "ws" /\ tasks[t].pc = "recv" /\ tasks'[t].kind = "ws"
  /\ tasks'[t] # tasks[t]
  /\ received[tasks[t].call] > 0 /\ received'[tasks[t].call] = 0

C20_FlushIsWhatWasReceived ==
  [][\A t \in Slots :
       Flushes(t)
         => /\ tasks'[t].flushed = received[tasks[t].call]
            /\ audio_buffers'[tasks[t].call] = 0]_vars

\* C21: a stop frame that arrives when no media was received since the stream
\* opened or since the last flush does nothing: the handler leaves the
\* sessions, the memories, the buffer, the streamSid and the outbox as they
\* were, starts no turn, calls neither Whisper nor the engine, and the
\* connection is back at the read loop.
C21_StopOnEmptyBufferIsNoOp ==
  \A t \in Slots :
    (tasks[t].kind = "ws" /\ tasks[t].pc = "recv" /\ received[tasks[t].call] = 0) =>
      process_media_message(World(t, Quiet), StopFrame) = World(t, Quiet)

\* A connection that already flushed one utterance waits with an empty buffer.
C21_Witness ==
  \E t \in Slots :
    /\ tasks[t].kind = "ws" /\ tasks[t].pc = "recv" /\ tasks[t].flushed > 0
    /\ received[tasks[t].call] = 0 /\ audio_buffers[tasks[t].call] = 0
    /\ HasSession(tasks[t].call)

UnknownEvents == {"mark", "dtmf"}

\* Texts that are not JSON, and frames of an event kind the handler does not
\* know, whatever streamSid or payload they carry.
Droppable ==
  {NotJson} \cup [json : {TRUE}, event : UnknownEvents, sid : {"", "MZ9"}, len : {0, 1}]

\* C22: a text that is not JSON, or a frame of an unknown event kind, is
\* dropped alone: the pass of the read loop leaves the connection in the
\* loop and the buffer, the streamSid, the sessions and everything else as
\* they were, so the next frame is handled as if the dropped one never came.
C22_BadFrameDroppedAlone ==
  \A t \in Slots :
    (tasks[t].kind = "ws" /\ tasks[t].pc = "recv") =>
      \A data \in Droppable : read_loop_pass(World(t, Quiet), data) = World(t, Quiet)

\* A connection with audio buffered, a streamSid and a session, in the loop.
C22_Witness ==
  \E t \in Slots :
    /\ tasks[t].kind = "ws" /\ tasks[t].pc = "recv"
    /\ audio_buffers[tasks[t].call] > 0 /\ stream_sids[tasks[t].call] # ""
    /\ HasSession(tasks[t].call)

\* C23: once a start frame has set the call's streamSid, no later frame
\* received for the call changes it.
C23_StreamSidSetOnce ==
  [][\A t \in Slots, c \in Calls :
       (/\ stream_sids[c] # ""
        /\ tasks[t].kind = "ws" /\ tasks[t].call = c /\ tasks[t].pc = "recv"
        /\ tasks'[t].kind = "ws" /\ tasks'[t].call = c
        /\ \E frame \in Listening.frames : receive_frame(t, frame, Listening.maxReq))
       => stream_sids'[c] = stream_sids[c]]_vars

\* A turn of the call is under way in t on the registered session.
InTurn(t, c) ==
  /\ tasks[t].kind \in {"speech", "ws"} /\ tasks[t].call = c
  /\ tasks[t].pc \in SuspendedInTurn
  /\ HasSession(c) /\ tasks[t].ctx = active_conversations[c]

\* C24: the turns of one call are strictly sequential: while a turn of the
\* call is between its start and its response, no other turn of that call is
\* acted upon, so no two turns work on the call's session at once.
C24_TurnsSequential ==
  \A c \in Calls : \A t, u \in Slots : (InTurn(t, c) /\ InTurn(u, c)) => t = u

\* The read loop of connection t can take a frame.
FramesEnabled(t) ==
  ENABLED (\E frame \in Pair.frames : receive_frame(t, frame, Pair.maxReq))

\* C25: a call waiting for the transcription does not hold up the others:
\* whenever a connection of call A waits for Whisper's result, a connection
\* of another call B that sits in its read loop can have its frames processed.
C25_TranscriptionWaitBlocksNobody ==
  \A t, u \in Slots :
    (/\ tasks[t].pc = "in_whisper"
     /\ tasks[u].kind = "ws" /\ tasks[u].pc = "recv" /\ tasks[u].call # tasks[t].call)
    => FramesEnabled(u)

\* Everything the program holds for call c.
Holdings(c) ==
  [session |-> IF HasSession(c) THEN <<active_conversations[c], Session(c), History(c)>>
               ELSE <<>>,
   memory |-> c \in memories, stream |-> active_streams[c],
   buffer |-> audio_buffers[c], sid |-> stream_sids[c], sent |-> outbox[c]]

\* C26: calls are isolated: a step of the handlers of one call (a frame, an
\* utterance, a collaborator's answer in its turn) leaves the session (state,
\* customer info, history, attempts, cart token), the audio buffer and the
\* streamSid of every other call as they were.
C26_CallsIsolated ==
  [][\A a, b \in Apart.calls :
       (a # b /\ StepOf(a)) => Holdings(b)' = Holdings(b)]_vars

\* Both calls have a session, one with details stored, the other with audio
\* buffered on its stream.
C26_Witness ==
  \E a, b \in Calls :
    /\ a # b /\ HasSession(a) /\ HasSession(b)
    /\ Session(a).name # "" /\ History(b) # <<>>

\* Connection t ends a turn in this step: it is back at the read loop.
EndsTurn(t) ==
  /\ tasks[t].kind = "ws" /\ tasks'[t].kind = "ws"
  /\ tasks[t].pc \in SuspendedInTurn \cup {"await_cart", "await_send"}
  /\ tasks'[t].pc = "recv"

\* C27: on the media stream no turn whose response carries a hangup is finished
\* without that response having been synthesized and transmitted: when such a
\* turn ends, its spoken response has just been written to the call's socket.
C27_HangupTurnIsSpoken ==
  [][\A t \in Slots :
       (EndsTurn(t) /\ tasks'[t].res.hangup)
         => /\ Len(outbox'[tasks[t].call]) = Len(outbox[tasks[t].call]) + 1
            /\ outbox'[tasks[t].call][Len(outbox'[tasks[t].call])].text
                 = tasks'[t].res.message]_vars

\* Whisper raised, or returned a text that is empty once stripped.
NoTranscript ==
  {env \in Transcriptions(Listening.msgs) : env.whisper # "text" \/ env.text = ""}

\* C28: when the transcription fails or comes back empty the conversation is
\* not advanced: the engine and the backend are not called, the call's session
\* (state, history, customer info, attempts) and everything else held for
\* the call stay as they were, and the connection is back at its read loop.
C28_NoTranscriptNoTurn ==
  [][\A t \in Slots, env \in NoTranscript :
       whisper_returns(t, env)
         => /\ Holdings(tasks[t].call)' = Holdings(tasks[t].call)
            /\ tasks'[t] = [tasks[t] EXCEPT !.pc = "recv"]]_vars

\* A second utterance of a call with a session got no transcript.
C28_Witness ==
  \E t \in Slots :
    /\ tasks[t].kind = "ws" /\ tasks[t].pc = "recv"
    /\ tasks[t].flushed > 0 /\ tasks[t].res = NoRes
    /\ HasSession(tasks[t].call) /\ History(tasks[t].call) # <<>>

\* A collaborator's answer resumes the turn of t, with Polly as env says.
TurnResumes(t, env) ==
  \/ \E ok \in BOOLEAN : get_catalog_returns(t, ok, env)
  \/ \E r \in EngineAnswers(ActionTags, Products) : engine_returns(t, r, env)
  \/ \E ok \in BOOLEAN : add_product_returns(t, ok, env)
  \/ get_cart_returns(t, env)
  \/ \E info \in Dialogue.infos : extractor_returns(t, info, env)
  \/ \E out \in {"ok", "none", "raise"} : create_order_returns(t, out, env)

\* A response of connection t is due in this step and its synthesis or
\* transcoding fails, or its transmission, begun earlier, fails in this step.
SendFails(t) ==
  \/ /\ tasks[t].kind = "ws"
     /\ \E env \in Env : ~env.synth /\ TurnResumes(t, env)
     /\ tasks'[t].pc \in {"recv", "await_send"}
  \/ \E c \in Calls : handle_websocket(t, c, FALSE, Listening.maxReq)
  \/ send_text_returns(t, FALSE)

\* C29: a failure of the synthesis, of the transcoding or of the socket while
\* a response is sent aborts that send only: no frame is written for the
\* response, the connection stays registered with its buffer and streamSid,
\* and its handler is back at the read loop for the frames that follow.
C29_SendFailureAbortsThatSend ==
  [][\A t \in Slots :
       SendFails(t)
         => /\ outbox' = outbox
            /\ tasks'[t].kind = "ws" /\ tasks'[t].pc = "recv"
            /\ active_streams'[tasks'[t].call] = t
            /\ audio_buffers' = audio_buffers /\ stream_sids' = stream_sids]_vars

\* A response was handed to the socket and is not among the frames written.
C29_Witness ==
  \E t \in Slots :
    /\ tasks[t].kind = "ws" /\ tasks[t].pc = "recv"
    /\ tasks[t].said # "" /\ tasks[t].said = tasks[t].res.message
    /\ \A i \in 1..Len(outbox[tasks[t].call]) :
         outbox[tasks[t].call][i].text # tasks[t].said

\* C30: the catalog is fetched once per session and kept: while the call's
\* session holds a catalog, no turn of the call requests the catalog again,
\* and as long as the call keeps a session that session holds the catalog
\* (the per-turn rebuild of the context carries it over). A handler requests
\* the catalog in the step that brings it to await_catalog.
C30_CatalogFetchedOnce ==
  [][\A c \in Calls :
       (HasSession(c) /\ Session(c).catalog)
         => /\ \A t \in Slots : (tasks'[t].call = c /\ tasks[t].pc # "await_catalog")
                                    => tasks'[t].pc # "await_catalog"
            /\ HasSession(c)' => Session(c)'.catalog]_vars

\* C31: the first start event of a call creates its session: when a start
\* frame arrives for a call that has no session, the step registers a session
\* for the call or at least requests its cart.
C31_StartCreatesSession ==
  [][\A t \in Slots :
       (/\ \E frame \in {f \in Listening.frames : f.event = "start"} :
             receive_frame(t, frame, Listening.maxReq)
        /\ ~HasSession(tasks[t].call))
         => \/ HasSession(tasks[t].call)'
            \/ tasks'[t].pc = "await_cart"]_vars

\* The turn t has returned from was a collect_customer_info action.
CollectTurn(t) == Returned(t) /\ tasks[t].action = "collect_customer_info"

\* C32, as stated: a collect_customer_info action, from any state, ends the
\* turn with the session in COLLECTING_INFO.
C32_CollectEndsCollecting ==
  \A t \in Slots : CollectTurn(t) => TurnOf(t).state = COLLECTING_INFO

\* C32, amended: a collect_customer_info action, from any state, ends the turn
\* in COLLECTING_INFO while a name, phone or address is still missing after the
\* extraction, and in CREATING_ORDER once all three are known.
C32_CollectEndsByInfo ==
  \A t \in Slots :
    CollectTurn(t) =>
      TurnOf(t).state = IF is_customer_info_complete(TurnOf(t))
                        THEN CREATING_ORDER ELSE COLLECTING_INFO

\* A collect_customer_info turn that began in another state and still lacks
\* a field.
C32_Witness ==
  \E t \in Slots :
    /\ CollectTurn(t) /\ tasks[t].prior \notin {COLLECTING_INFO, WELCOME}
    /\ TurnOf(t).state = COLLECTING_INFO /\ TurnOf(t).name # ""

\* The turn t has returned from was a clarification received in COLLECTING_INFO.
ClarifiedCollecting(t) ==
  /\ Returned(t) /\ tasks[t].action = "clarification"
  /\ tasks[t].before.state = COLLECTING_INFO

\* C33, as stated: a clarification received in COLLECTING_INFO is handled as
\* customer-info collection: the attempt counter is not incremented, the
\* hand-off message is not emitted, and the turn ends in COLLECTING_INFO.
C33_ClarificationCollects ==
  \A t \in Slots :
    ClarifiedCollecting(t)
      => /\ TurnOf(t).attempts = tasks[t].before.attempts
         /\ tasks[t].res.message # "handoff"
         /\ TurnOf(t).state = COLLECTING_INFO

\* C33, amended: as above, but the turn ends in COLLECTING_INFO only while a
\* name, phone or address is still missing after the extraction, and in
\* CREATING_ORDER once all three are known.
C33_ClarificationCollectsByInfo ==
  \A t \in Slots :
    ClarifiedCollecting(t)
      => /\ TurnOf(t).attempts = tasks[t].before.attempts
         /\ tasks[t].res.message # "handoff"
         /\ tasks[t].ops = <<"extract">>
         /\ TurnOf(t).state = IF is_customer_info_complete(TurnOf(t))
                               THEN CREATING_ORDER ELSE COLLECTING_INFO

\* Such a turn of a caller who was asked to repeat before, a field still missing.
C33_Witness ==
  \E t \in Slots :
    /\ ClarifiedCollecting(t) /\ tasks[t].before.attempts > 0
    /\ TurnOf(t).state = COLLECTING_INFO

\* The digits of a phone candidate, as filter(str.isdigit, ...) keeps them.
Digits(phone) == SelectSeq(phone, IsDigit)

\* The prompt for the first field still missing, name before phone before address.
Prompt(cx) ==
  IF cx.name = "" THEN "ask_name"
  ELSE IF cx.phone = <<>> THEN "ask_phone"
  ELSE IF cx.address = "" THEN "ask_address" ELSE "all_info"

\* C34: the extraction writes a field only if it is empty: a name, phone or
\* address already known keeps its value whatever the candidate; an empty
\* field takes a non-empty candidate, the phone only as its digits and only
\* if they are at least 7, a shorter one leaving the phone empty; the answer
\* asks for the first field still missing, in the order name, phone, address.
C34_ExtractionFillsEmptyFields ==
  [][\A t \in Slots, info \in Details.infos :
       (tasks[t].pc = "await_extract" /\ extractor_returns(t, info, Quiet))
         => LET old == TurnOf(t)
                new == heap'[tasks'[t].ctx]
            IN  /\ new.name = IF old.name = "" THEN info.name ELSE old.name
                /\ new.phone = IF old.phone = <<>> /\ Len(Digits(info.phone)) >= 7
                                THEN Digits(info.phone) ELSE old.phone
                /\ new.address = IF old.address = "" THEN info.address ELSE old.address
                /\ tasks'[t].res.message = Prompt(new)]_vars

\* A collection turn of a caller whose name was known: the name is kept and,
\* no acceptable phone having come, the phone is asked for.
C34_Witness ==
  \E t \in Slots :
    /\ CollectTurn(t) /\ tasks[t].before.name = "Ana" /\ TurnOf(t).name = "Ana"
    /\ TurnOf(t).phone = <<>> /\ tasks[t].res.message = "ask_phone"

\* C35: the wait for a transcription job always ends, and with a value: the
\* transcript as extracted when the job is seen completed, the failure value
\* None when the job failed, when polling raised or when max_wait has passed;
\* a text is returned only for a completed job and no exception leaves it.
C35_WaitTerminates ==
  /\ [](waiter.pc = "returned" =>
          /\ waiter.result \in {"text", "empty", "none"}
          /\ waiter.seen = "COMPLETED" /\ waiter.extracted # "" =>
                waiter.result = waiter.extracted
          /\ waiter.seen \in {"FAILED", "raise"} => waiter.result = "none"
          /\ waiter.result # "none" => waiter.seen = "COMPLETED"
          /\ waiter.elapsed <= MaxWait + PollInterval + MaxOversleep)
  /\ (waiter.pc = "loop") ~> (waiter.pc = "returned")

\* The job never completed and the wait gave up when max_wait had passed.
C35_Witness ==
  /\ waiter.pc = "returned" /\ waiter.result = "none"
  /\ waiter.seen = "IN_PROGRESS" /\ waiter.elapsed >= MaxWait

C37_OrderCompleteIsTerminal ==
  [][\A o \in ObjIds :
       (/\ heap[o].state = ORDER_COMPLETE
        /\ \E c \in Calls : active_conversations[c] = o /\ active_conversations'[c] = o)
         => /\ heap'[o].state = ORDER_COMPLETE
            /\ \A t \in Slots :
                 ~(/\ tasks[t].pc # "await_order" /\ tasks'[t].pc = "await_order"
                   /\ tasks'[t].ctx = o)]_vars

\* C38: every add-item, get-cart and order-create request carries a cart
\* token: none is sent for a session whose cart could not be allocated. An
\* invocation sends such a request in the step that brings it to await_add,
\* await_getcart or await_order, with the cart_token of the session it works on.
C38_RequestsCarryCartToken ==
  [][\A t \in Slots :
       (\E at \in {"await_add", "await_getcart", "await_order"} :
          tasks[t].pc # at /\ tasks'[t].pc = at)
         => heap'[tasks'[t].ctx].cart_token # 0]_vars

\* C39: when a connection ends while another connection of the same call is
\* open, the call's stream entry, audio buffer and streamSid stay in place.
C39_CleanupOnlyOwnConnection ==
  [][\A t \in Slots :
       (/\ \E u \in Slots \ {t} :
             tasks[u].kind = "ws" /\ tasks[u].pc # "idle" /\ tasks[u].call = tasks[t].call
        /\ disconnect(t))
         => LET c == tasks[t].call IN
            /\ active_streams'[c] = active_streams[c]
            /\ audio_buffers'[c] = audio_buffers[c]
            /\ stream_sids'[c] = stream_sids[c]]_vars

\* What a turn may not touch when it fails: state, customer info, attempts
\* and the content of the history.
TurnKept(t) ==
  LET data(cx, ls) == [state |-> cx.state, name |-> cx.name, phone |-> cx.phone,
                       address |-> cx.address, attempts |-> cx.attempts,
                       history |-> ls[cx.hist]]
  IN  data(heap'[tasks'[t].ctx], lists') = data(heap[tasks[t].ctx], lists)

\* The dialogue engine raises in turn t in this step.
EngineRaises(t) ==
  /\ tasks[t].pc = "await_ai"
  /\ \E env \in Env : engine_returns(t, [ok |-> FALSE, action |-> "", product |-> ""], env)

\* The order-create request of turn t raises in this step.
OrderRaises(t) ==
  tasks[t].pc = "await_order" /\ \E env \in Env : create_order_returns(t, "raise", env)

\* A turn that returns holds a response with a message; when the catalog
\* cannot be loaded the turn ends with the error response, the engine is not
\* invoked and the session's dialogue data stay as they were.
CatalogFailureEndsTurn(t) ==
  /\ Returned(t)' => /\ tasks'[t].res.action \in {"voice_response", "error"}
                     /\ tasks'[t].res.message # ""
  /\ (tasks[t].pc = "await_catalog" /\ \E env \in Env : get_catalog_returns(t, FALSE, env))
       => /\ Returned(t)' /\ tasks'[t].res = error_response("no_menu")
          /\ tasks'[t].action = "" /\ memories' = memories
          /\ TurnKept(t)

====
